---- MODULE Spec2Model ----
(***************************************************************************)
(* A model of the three programs of the website repository:                *)
(*   - assets/js/script.js : the theme toggle and its restore on load      *)
(*   - the directory-listing Node script (getFoldersInDirectory)           *)
(*   - the Makefile's push target                                          *)
(* Each program has its own specification; the variables of the other     *)
(* programs are held at their idle values.                                 *)
(***************************************************************************)
EXTENDS Integers, Sequences, FiniteSets, TLC

VARIABLES
    attr,       \* document.body's data-theme attribute (NULL when absent)
    store,      \* localStorage's value under key "theme" (NULL when absent)
    loaded,     \* whether the load event of the current page has fired
    events,     \* history: every page load, toggle and onload so far
    pc,         \* listing script: position in the script
    dir,        \* listing script: what is on disk at imagesFolderPath
    folders,    \* listing script: foldersInImages
    console,    \* listing script: what was written to the console
    goal,       \* make: the target being made
    COMMIT_MSG, \* make: the value of the COMMIT_MSG variable
    mpc,        \* make: the recipe line about to run, or how make ended
    cmds,       \* make: the commands run so far in this invocation
    statuses    \* make: exit statuses of the finished invocations

themeVars == <<attr, store, loaded, events>>
listVars == <<pc, dir, folders, console>>
makeVars == <<goal, COMMIT_MSG, mpc, cmds, statuses>>
vars == <<attr, store, loaded, events, pc, dir, folders, console,
          goal, COMMIT_MSG, mpc, cmds, statuses>>

\* JavaScript's null: what getAttribute and getItem return for a missing entry.
NULL == "<null>"

(***************************************************************************)
(* Bounds                                                                  *)
(***************************************************************************)
MaxToggles == 3
MaxPages == 2

(***************************************************************************)
(* assets/js/script.js                                                     *)
(***************************************************************************)

\* The data-theme attribute of a freshly parsed document body.
InitialAttr == NULL

\* The values the store may hold when the first page opens.
StoredValues == {NULL, "", "dark"}

\* JavaScript truthiness of a string-or-null value: if (savedTheme)
Truthy(v) == v # NULL /\ v # ""

newTheme_AlwaysDark(currentTheme) == "dark"

newTheme_Light(currentTheme) == IF currentTheme = "dark" THEN "light" ELSE "dark"

\* const newTheme = currentTheme === 'dark' ? '' : 'dark';
newTheme(currentTheme) == IF currentTheme = "dark" THEN "" ELSE "dark"

\* One entry of the history: the operation, the attribute and the stored value
\* before and after it, and whether it called localStorage.setItem.
Event(op, a, s, w) ==
    [op |-> op, attrBefore |-> attr, attrAfter |-> a,
     storeBefore |-> store, storeAfter |-> s, wrote |-> w]

\* Index of the load event that opened the current page.
PageStart ==
    CHOOSE i \in 1..Len(events) :
        /\ events[i].op = "load"
        /\ \A j \in (i+1)..Len(events) : events[j].op # "load"

\* Indices of the events of the current page.
PageEvents == (PageStart + 1)..Len(events)

TogglesInPage == Cardinality({i \in PageEvents : events[i].op = "toggle"})

Pages == Cardinality({i \in 1..Len(events) : events[i].op = "load"})

ThemeInit ==
    /\ attr = InitialAttr
    /\ store \in StoredValues
    /\ loaded = FALSE
    /\ events = <<[op |-> "load", attrBefore |-> NULL, attrAfter |-> InitialAttr,
                   storeBefore |-> store, storeAfter |-> store, wrote |-> FALSE]>>

\* The browser opens the page again: a new document, the script is evaluated
\* and installs the onload handler; the store survives.
PageLoad ==
    /\ Pages < MaxPages
    /\ attr' = InitialAttr
    /\ loaded' = FALSE
    /\ store' = store
    /\ events' = Append(events, Event("load", InitialAttr, store, FALSE))

toggleTheme_NoSave ==
    /\ TogglesInPage < MaxToggles
    /\ LET currentTheme == attr
           new == newTheme(currentTheme)
       IN  /\ attr' = new
           /\ store' = store
           /\ events' = Append(events, Event("toggle", new, store, FALSE))
    /\ UNCHANGED loaded

toggleTheme_SavesCurrent ==
    /\ TogglesInPage < MaxToggles
    /\ LET currentTheme == attr
           new == newTheme(currentTheme)
       IN  /\ attr' = new
           /\ store' = (IF currentTheme = NULL THEN "null" ELSE currentTheme)
           /\ events' = Append(events, Event("toggle", new, store', TRUE))
    /\ UNCHANGED loaded

toggleTheme ==
    /\ TogglesInPage < MaxToggles
    /\ LET currentTheme == attr
           new == newTheme(currentTheme)
       IN  /\ attr' = new
           /\ store' = new
           /\ events' = Append(events, Event("toggle", new, new, TRUE))
    /\ UNCHANGED loaded

onload_NoRestore ==
    /\ ~loaded
    /\ loaded' = TRUE
    /\ attr' = attr
    /\ store' = store
    /\ events' = Append(events, Event("onload", attr, store, FALSE))

onload_Unconditional ==
    /\ ~loaded
    /\ loaded' = TRUE
    /\ LET savedTheme == store
           a == IF savedTheme # NULL THEN savedTheme ELSE "null"
       IN  /\ attr' = a
           /\ events' = Append(events, Event("onload", a, store, FALSE))
    /\ store' = store

onload ==
    /\ ~loaded
    /\ loaded' = TRUE
    /\ LET savedTheme == store
           a == IF Truthy(savedTheme) THEN savedTheme ELSE attr
       IN  /\ attr' = a
           /\ events' = Append(events, Event("onload", a, store, FALSE))
    /\ store' = store

(***************************************************************************)
(* The directory-listing script                                            *)
(***************************************************************************)
MaxEntries == 3

Names == {"cats", "dogs", "a.png", "notes"}

Kinds == {"file", "dir", "symlink"}

\* fs.Dirent: a name and the type of the entry
Dirent == [name : Names, kind : Kinds]

\* Dirent.isDirectory(): true for a directory, false for a file or a link
isDirectory(item) == item.kind = "dir"

\* The listings readdirSync can produce: no two entries of a directory share
\* a name.
Listings ==
    {s \in UNION {[1..n -> Dirent] : n \in 0..MaxEntries} :
        \A i, j \in 1..Len(s) : i # j => s[i].name # s[j].name}

\* What is at imagesFolderPath: a readable directory with its listing, or
\* nothing readable (readdirSync throws).
Dirs ==
    {[readable |-> TRUE, items |-> s] : s \in Listings}
        \cup {[readable |-> FALSE, items |-> <<>>]}

filterDirs_KeepAll(items) == items

\* items.filter(item => item.isDirectory())
RECURSIVE filterDirs(_)
filterDirs(items) ==
    IF items = <<>> THEN <<>>
    ELSE LET rest == filterDirs(Tail(items))
         IN  IF isDirectory(Head(items)) THEN <<Head(items)>> \o rest ELSE rest

\* Array.prototype.map(item => item.name)
mapName(items) == [i \in 1..Len(items) |-> items[i].name]

ErrorLine == [stream |-> "error", text |-> "Error reading directory", arg |-> <<>>]

LogLine(result) ==
    [stream |-> "log", text |-> "Folders in the \"images\" directory:", arg |-> result]

getFoldersInDirectory_NoCatch(d) ==
    IF d.readable
    THEN [threw |-> FALSE, ret |-> mapName(filterDirs(d.items)), out |-> <<>>]
    ELSE [threw |-> TRUE, ret |-> <<>>, out |-> <<>>]

\* The result of one call: whether it threw, what it returned and what it
\* wrote to the console.
getFoldersInDirectory(d) ==
    IF d.readable
    THEN [threw |-> FALSE, ret |-> mapName(filterDirs(d.items)), out |-> <<>>]
    ELSE [threw |-> FALSE, ret |-> <<>>, out |-> <<ErrorLine>>]

ListInit ==
    /\ pc = "line19"
    /\ dir \in Dirs
    /\ folders = <<>>
    /\ console = <<>>

\* const foldersInImages = getFoldersInDirectory(imagesFolderPath);
CallGetFolders ==
    /\ pc = "line19"
    /\ LET r == getFoldersInDirectory(dir)
       IN  /\ folders' = r.ret
           /\ console' = console \o r.out
           /\ pc' = IF r.threw THEN "crashed" ELSE "line20"
    /\ UNCHANGED dir

\* console.log('Folders in the "images" directory:', foldersInImages);
LogFolders ==
    /\ pc = "line20"
    /\ console' = Append(console, LogLine(folders))
    /\ pc' = "exit"
    /\ UNCHANGED <<dir, folders>>

(***************************************************************************)
(* The Makefile                                                            *)
(***************************************************************************)
MaxRuns == 2

Goals == {"help", "push"}

Messages == {"", "fix typo", "wip"}

\* The exit statuses a git command may end with.
ExitCodes == {0, 1, 128}

DefaultMessage == "Generic update (probably didn't bother supplying a commit message)"

\* if [ -z "$(COMMIT_MSG)" ]; then ... -m "Generic update ..."; else ... -m "$(COMMIT_MSG)"; fi
CommitMessage(msg) == IF msg = "" THEN DefaultMessage ELSE msg

\* The first recipe line of a goal.
FirstLine(g) == IF g = "push" THEN "line12" ELSE "line18"

Ran(cmd, arg, rc) == [cmd |-> cmd, arg |-> arg, rc |-> rc]

AfterLine_IgnoreErrors(rc, next) ==
    /\ mpc' = next
    /\ statuses' = IF next = "exit" THEN Append(statuses, 0) ELSE statuses

\* make after a recipe line ended with status rc: a non-zero status ends the
\* invocation with an error, otherwise the next line runs (or make is done).
AfterLine(rc, next) ==
    IF rc # 0
    THEN /\ mpc' = "exit"
         /\ statuses' = Append(statuses, 2)
    ELSE /\ mpc' = next
         /\ statuses' = IF next = "exit" THEN Append(statuses, 0) ELSE statuses

MakeInit ==
    /\ goal \in Goals
    /\ COMMIT_MSG \in Messages
    /\ mpc = FirstLine(goal)
    /\ cmds = <<>>
    /\ statuses = <<>>

\* make [goal] [COMMIT_MSG=...] is run again
Invoke ==
    /\ mpc = "exit"
    /\ Len(statuses) < MaxRuns
    /\ goal' \in Goals
    /\ COMMIT_MSG' \in Messages
    /\ mpc' = FirstLine(goal')
    /\ cmds' = <<>>
    /\ UNCHANGED statuses

\* git add .
GitAdd ==
    /\ mpc = "line12"
    /\ \E rc \in ExitCodes :
        /\ cmds' = Append(cmds, Ran("git add", ".", rc))
        /\ AfterLine(rc, "line13")
    /\ UNCHANGED <<goal, COMMIT_MSG>>

\* if [ -z "$(COMMIT_MSG)" ]; then git commit -m ...; else git commit -m ...; fi
GitCommit ==
    /\ mpc = "line13"
    /\ \E rc \in ExitCodes :
        /\ cmds' = Append(cmds, Ran("git commit", CommitMessage(COMMIT_MSG), rc))
        /\ AfterLine(rc, "line14")
    /\ UNCHANGED <<goal, COMMIT_MSG>>

\* git push
GitPush ==
    /\ mpc = "line14"
    /\ \E rc \in ExitCodes :
        /\ cmds' = Append(cmds, Ran("git push", "", rc))
        /\ AfterLine(rc, "exit")
    /\ UNCHANGED <<goal, COMMIT_MSG>>

\* the seven echo lines of the help target
Help ==
    /\ mpc = "line18"
    /\ cmds' = Append(cmds, Ran("echo", "Makefile for website", 0))
    /\ AfterLine(0, "exit")
    /\ UNCHANGED <<goal, COMMIT_MSG>>

(***************************************************************************)
(* Specifications                                                          *)
(***************************************************************************)
ThemeIdle ==
    /\ attr = InitialAttr
    /\ store = NULL
    /\ loaded = FALSE
    /\ events = <<>>

ListIdle ==
    /\ pc = "idle"
    /\ dir = [readable |-> FALSE, items |-> <<>>]
    /\ folders = <<>>
    /\ console = <<>>

MakeIdle ==
    /\ goal = "help"
    /\ COMMIT_MSG = ""
    /\ mpc = "idle"
    /\ cmds = <<>>
    /\ statuses = <<>>

Init == ThemeInit /\ ListIdle /\ MakeIdle

Next ==
    \/ PageLoad /\ UNCHANGED <<listVars, makeVars>>
    \/ toggleTheme /\ UNCHANGED <<listVars, makeVars>>
    \/ onload /\ UNCHANGED <<listVars, makeVars>>

Spec == Init /\ [][Next]_vars

ListSpecInit == ThemeIdle /\ ListInit /\ MakeIdle

ListSpecNext ==
    \/ CallGetFolders /\ UNCHANGED <<themeVars, makeVars>>
    \/ LogFolders /\ UNCHANGED <<themeVars, makeVars>>

ListSpec == ListSpecInit /\ [][ListSpecNext]_vars

\* node runs the script to its end
ListFairSpec == ListSpec /\ WF_vars(ListSpecNext)

PushSpecInit == ThemeIdle /\ ListIdle /\ MakeInit

PushSpecNext ==
    \/ Invoke /\ UNCHANGED <<themeVars, listVars>>
    \/ GitAdd /\ UNCHANGED <<themeVars, listVars>>
    \/ GitCommit /\ UNCHANGED <<themeVars, listVars>>
    \/ GitPush /\ UNCHANGED <<themeVars, listVars>>
    \/ Help /\ UNCHANGED <<themeVars, listVars>>

PushSpec == PushSpecInit /\ [][PushSpecNext]_vars

(***************************************************************************)
(* Properties of the theme script (checked under Spec)                     *)
(***************************************************************************)
\* The theme in effect: dark exactly when data-theme (or the stored value) is
\* "dark"; an absent or empty value is the default theme.
Effective(v) == IF v = "dark" THEN "dark" ELSE "default"

Toggles == {i \in 1..Len(events) : events[i].op = "toggle"}

Onloads == {i \in 1..Len(events) : events[i].op = "onload"}

\* The load event that opened the page event i belongs to.
PageOf(i) ==
    CHOOSE p \in 1..i :
        /\ events[p].op = "load"
        /\ \A j \in (p+1)..i : events[j].op # "load"

\* The toggles that ran before event i in the page of event i.
TogglesBefore(i) == {t \in Toggles : PageOf(i) < t /\ t < i}

Max(S) == CHOOSE m \in S : \A x \in S : x <= m

\* The events of the current page that wrote the store.
WritesInPage == {i \in PageEvents : events[i].wrote}

\* The history's last entry is the present state.
HistoryIsCurrent ==
    /\ attr = events[Len(events)].attrAfter
    /\ store = events[Len(events)].storeAfter

\* C1: every call of toggleTheme, whatever the attribute (absent, "" or
\* "dark") and the stored value were before, sets data-theme to "" if it was
\* "dark" and to "dark" otherwise, and leaves the stored value equal to the
\* new data-theme value.
C1_ToggleFlipsAndStores ==
    /\ HistoryIsCurrent
    /\ \A i \in Toggles :
        /\ events[i].attrBefore \in {NULL, "", "dark"}
        /\ events[i].attrAfter = (IF events[i].attrBefore = "dark" THEN "" ELSE "dark")
        /\ events[i].storeAfter = events[i].attrAfter

\* Toggles have run from each of absent, "" and "dark", one of them while the
\* stored value differed from the attribute.
C1_Witness ==
    /\ \E i \in Toggles : events[i].attrBefore = NULL /\ events[i].storeBefore = "dark"
    /\ \E i \in Toggles : events[i].attrBefore = ""
    /\ \E i \in Toggles : events[i].attrBefore = "dark"

\* C2 as stated: two toggles in a row return data-theme to the value it had
\* before the first of them, from absent as well as from "" and "dark".
C2_DoubleToggleRestoresAttr ==
    \A i \in Toggles :
        (i + 1) \in Toggles => events[i+1].attrAfter = events[i].attrBefore

\* C2 amended: two toggles in a row return data-theme to its original value
\* when that was "" or "dark"; from absent they end at "" (not absent). In
\* every case the theme in effect is the original one.
C2_DoubleToggleAmended ==
    \A i \in Toggles :
        (i + 1) \in Toggles =>
            /\ events[i].attrBefore \in {"", "dark"} =>
                   events[i+1].attrAfter = events[i].attrBefore
            /\ events[i].attrBefore = NULL => events[i+1].attrAfter = ""
            /\ Effective(events[i+1].attrAfter) = Effective(events[i].attrBefore)

\* Two toggles in a row have run from absent, and two from "dark".
C2_Witness ==
    /\ \E i \in Toggles : (i + 1) \in Toggles /\ events[i].attrBefore = NULL
    /\ \E i \in Toggles : (i + 1) \in Toggles /\ events[i].attrBefore = "dark"

\* C3: once the store has been written in the current page, data-theme equals
\* the value last written in this page, before and after the onload restore;
\* and an onload that finds no stored value leaves the attribute absent.
C3_AttrIsLastWritten ==
    /\ WritesInPage # {} => attr = events[Max(WritesInPage)].storeAfter
    /\ \A i \in Onloads :
        events[i].storeBefore = NULL =>
            events[i].attrBefore = NULL /\ events[i].attrAfter = NULL

\* An onload found no stored value, and in the current page toggles ran both
\* before and after the onload restore.
C3_Witness ==
    /\ \E i \in Onloads : events[i].storeBefore = NULL
    /\ \E i \in Onloads :
        /\ i \in PageEvents
        /\ TogglesBefore(i) # {}
        /\ \E t \in Toggles : t > i

\* C4 as stated: onload with "dark" stored sets data-theme to "dark"; onload
\* with nothing or "" stored does nothing and data-theme is unset afterwards.
C4_OnloadAsStated ==
    \A i \in Onloads :
        /\ events[i].storeBefore = "dark" => events[i].attrAfter = "dark"
        /\ events[i].storeBefore \in {NULL, ""} =>
            /\ events[i].attrAfter = events[i].attrBefore
            /\ events[i].attrAfter = NULL

\* C4 amended: onload with "dark" stored sets data-theme to "dark"; onload
\* with nothing or "" stored does nothing, so data-theme keeps the value it
\* had: unset when nothing is stored, and unset with "" stored unless a toggle
\* earlier in the same page had set it.
C4_OnloadAmended ==
    \A i \in Onloads :
        /\ events[i].storeBefore = "dark" => events[i].attrAfter = "dark"
        /\ events[i].storeBefore \in {NULL, ""} =>
            /\ events[i].attrAfter = events[i].attrBefore
            /\ events[i].storeAfter = events[i].storeBefore
            /\ events[i].storeBefore = NULL => events[i].attrAfter = NULL
            /\ TogglesBefore(i) = {} => events[i].attrAfter = NULL

\* Onload has run with "dark" stored on a fresh page, and with "" stored
\* after toggles in the same page had set data-theme to "".
C4_Witness ==
    /\ \E i \in Onloads :
        /\ events[i].storeBefore = "dark"
        /\ events[i].attrBefore = NULL
        /\ events[i].attrAfter = "dark"
    /\ \E i \in Onloads :
        /\ events[i].storeBefore = ""
        /\ TogglesBefore(i) # {}
        /\ events[i].attrAfter = ""

\* C5: the theme in effect has two states and every toggle flips it; once the
\* onload restore of a page has run, the theme in effect is the theme last
\* persisted, and the default theme if nothing was ever persisted.
C5_RestoredThemeIsPersisted ==
    /\ \A i \in Toggles :
        Effective(events[i].attrAfter) # Effective(events[i].attrBefore)
    /\ \A i \in 1..Len(events) :
        events[i].op # "toggle" /\ events[i].op # "load" =>
            Effective(events[i].attrAfter) = Effective(events[i].storeBefore)
    /\ loaded => Effective(attr) = Effective(store)
    /\ loaded /\ store = NULL => Effective(attr) = "default"

\* Nothing was stored at first, toggles in the first page persisted "dark",
\* and the second page has been loaded and restored to dark with no toggle.
C5_Witness ==
    /\ events[1].storeBefore = NULL
    /\ Pages = 2
    /\ \E t \in Toggles : t < PageStart
    /\ TogglesInPage = 0
    /\ loaded
    /\ attr = "dark"

\* C6: the stored value is always absent, "" or "dark", and the onload
\* restore never writes the store.
C6_StoreDomain ==
    /\ store \in {NULL, "", "dark"}
    /\ \A i \in 1..Len(events) : events[i].storeAfter \in {NULL, "", "dark"}
    /\ \A i \in Onloads :
        ~events[i].wrote /\ events[i].storeAfter = events[i].storeBefore

\* Over two pages toggles have stored "" and "dark" and an onload has
\* restored "dark".
C6_Witness ==
    /\ Pages = 2
    /\ \E i \in Toggles : events[i].storeAfter = ""
    /\ \E i \in Toggles : events[i].storeAfter = "dark"
    /\ \E i \in Onloads : events[i].storeBefore = "dark"

\* C10: when toggles ran in a page before its load event fired, the onload
\* restore leaves data-theme at the result of the most recent toggle; and
\* whenever a toggle has run in a loaded page, data-theme is the result of
\* the most recent toggle.
C10_OnloadKeepsToggle ==
    /\ \A i \in Onloads :
        TogglesBefore(i) # {} =>
            /\ events[i].attrAfter = events[Max(TogglesBefore(i))].attrAfter
            /\ Effective(events[i].attrAfter)
                   = Effective(events[Max(TogglesBefore(i))].attrAfter)
    /\ loaded /\ TogglesInPage > 0 =>
        attr = events[Max(Toggles)].attrAfter

\* A page opened with "dark" stored, the user toggled to dark and back to
\* the default before the load event, and then the onload restore ran.
C10_Witness ==
    \E i \in Onloads :
        /\ events[PageOf(i)].storeBefore = "dark"
        /\ Cardinality(TogglesBefore(i)) = 2
        /\ events[i].attrBefore = ""
        /\ events[i].storeBefore = ""

(***************************************************************************)
(* Properties of the directory-listing script                              *)
(***************************************************************************)
\* The position of the entry called n in the listing.
PositionOf(n) == CHOOSE i \in 1..Len(dir.items) : dir.items[i].name = n

\* C7 (under ListSpec): for a readable directory the result holds exactly
\* the names of the entries that are directories, each once, in the order of
\* the listing, and the name of no other entry.
C7_ExactlyTheFolders ==
    pc # "line19" /\ dir.readable =>
        /\ \A k \in 1..Len(folders) :
            \E i \in 1..Len(dir.items) :
                dir.items[i].kind = "dir" /\ dir.items[i].name = folders[k]
        /\ \A i \in 1..Len(dir.items) :
            Cardinality({k \in 1..Len(folders) : folders[k] = dir.items[i].name})
                = (IF dir.items[i].kind = "dir" THEN 1 ELSE 0)
        /\ \A k, l \in 1..Len(folders) :
            k < l => PositionOf(folders[k]) < PositionOf(folders[l])

\* The script has listed a directory whose entries are a folder, a file and
\* a folder, and returned the two folders in that order.
C7_Witness ==
    /\ pc = "exit"
    /\ dir.readable
    /\ Len(dir.items) = 3
    /\ dir.items[1].kind = "dir"
    /\ dir.items[2].kind = "file"
    /\ dir.items[3].kind = "dir"
    /\ folders = <<dir.items[1].name, dir.items[3].name>>

\* C8 (under ListFairSpec): when the directory cannot be read the call does
\* not raise, the failure is logged, the result is the empty list, and the
\* script goes on to its final log of the result.
C8_ReadFailureDegrades ==
    /\ [](~dir.readable /\ pc # "line19" =>
            /\ pc \in {"line20", "exit"}
            /\ folders = <<>>
            /\ Len(console) >= 1
            /\ console[1].stream = "error")
    /\ [](pc = "exit" => console[Len(console)] = LogLine(folders))
    /\ (~dir.readable ~> (pc = "exit" /\ console = <<ErrorLine, LogLine(<<>>)>>))

\* The script has ended after a failed read, with the error and the empty
\* result on the console.
C8_Witness ==
    /\ ~dir.readable
    /\ pc = "exit"
    /\ folders = <<>>
    /\ console = <<ErrorLine, LogLine(<<>>)>>

(***************************************************************************)
(* Properties of the Makefile                                              *)
(***************************************************************************)
\* The commands of the push recipe, in order.
PushOrder == <<"git add", "git commit", "git push">>

Failed == {i \in 1..Len(cmds) : cmds[i].rc # 0}

\* C9 (under PushSpec): making push runs git add, git commit and git push
\* in that order, the commit with COMMIT_MSG or with the default message
\* when COMMIT_MSG is empty; no command runs after one that failed, so git
\* push runs only after add and commit succeeded; and make ends with a
\* non-zero status exactly when a command failed.
C9_PushSequence ==
    goal = "push" /\ mpc # "idle" =>
        /\ Len(cmds) <= 3
        /\ \A i \in 1..Len(cmds) : cmds[i].cmd = PushOrder[i]
        /\ Len(cmds) >= 2 =>
            cmds[2].arg = (IF COMMIT_MSG = "" THEN DefaultMessage ELSE COMMIT_MSG)
        /\ \A i \in Failed : i = Len(cmds)
        /\ Len(cmds) = 3 => cmds[1].rc = 0 /\ cmds[2].rc = 0
        /\ Failed # {} => mpc = "exit" /\ statuses[Len(statuses)] # 0
        /\ mpc = "exit" /\ Failed = {} =>
            Len(cmds) = 3 /\ statuses[Len(statuses)] = 0
        /\ mpc # "exit" => mpc = (<<"line12", "line13", "line14">>)[Len(cmds) + 1]

\* A first invocation ended with an error; a second one, with no COMMIT_MSG,
\* ran add, commit with the default message and push, and ended with 0.
C9_Witness ==
    /\ statuses = <<2, 0>>
    /\ goal = "push"
    /\ COMMIT_MSG = ""
    /\ mpc = "exit"
    /\ Len(cmds) = 3
    /\ cmds[2].arg = DefaultMessage
    /\ cmds[3].cmd = "git push"

====
